---- MODULE Spec2Model ----
(***************************************************************************)
(* State-machine model of the self-update logic of the C/C++ extension     *)
(* (Extension/src/LanguageServer/extension.ts): realActivation,            *)
(* onDidChangeSettings, suggestInsidersChannel, checkAndApplyUpdate,       *)
(* applyUpdate and installVsix.                                            *)
(*                                                                         *)
(* JavaScript runs one callback at a time; a step of the model is one      *)
(* callback (an event handler, a timer callback or the continuation of an  *)
(* await) together with the promise continuations that run before the      *)
(* next event is taken.  A call of config.update is taken to have reached  *)
(* the configuration store when the calling callback ends.                 *)
(***************************************************************************)
EXTENDS Integers, Sequences, FiniteSets, TLC

\* Bounds of the model.
\* calls of checkAndApplyUpdate in a session whose installVsix uses the
\* installExtension command
MaxCycles == 2
\* calls of checkAndApplyUpdate in a session whose installVsix spawns the script
MaxSpawnCycles == 1
\* stdout 'data' events of one spawned process
MaxData == 2

Cycles == 1..(IF MaxCycles > MaxSpawnCycles THEN MaxCycles ELSE MaxSpawnCycles)

\* buildInfoCache === null
Null == "null"
\* a JavaScript undefined
Undefined == "undefined"
\* insiderUpdateTimer before any setInterval
NoTimer == 0

\* the extension host is started at most this many times
MaxSessions == 2
\* characters of the text handed to CreateFromContent
MaxLen == 5
\* characters behind the head of a text with marks, quotes and escapes
MaxTextLen == 4
\* download attempts of one cycle that are counted; further ones leave the count
MaxAttempts == 4

Channels == {"Default", "Insiders"}
\* inspect('http.proxySupport').globalValue: undefined when the user never set it.
\* The code compares the value only with "off" and with itself, so "on" and
\* "override" behave as undefined does.
ProxyGlobalValues == {Undefined, "off"}
\* a workspace-level value shadows the global one in config.get
ProxyWorkspaceValues == {Undefined, "off"}
ProxyDefault == "override"
\* which branch of installVsix vscode.version selects
InstallPaths == {"command", "exitcode", "stdio"}

VARIABLES
    updateChannel,          \* the C_Cpp.updateChannel setting
    realActivationOccurred, \* extension.ts:40
    insiderUpdateTimer,     \* extension.ts:39, the id held by the variable
    liveTimers,             \* ids of the interval timers that still fire
    timerArg,               \* the argument each interval timer passes on
    nTimers,                \* interval timers created so far
    buildInfoCache,         \* extension.ts:44
    suggestInsiders,        \* PersistentState "CPP.suggestInsiders"
    suggest,                \* the suggestInsidersChannel call of this session
    channelUpdatePending,   \* update("updateChannel","Insiders") on its way
    proxyGlobal,            \* global value of http.proxySupport
    proxyWorkspace,         \* workspace value of http.proxySupport
    installPath,            \* branch of installVsix for this vscode.version
    nCycles,                \* calls of checkAndApplyUpdate so far
    cycles,                 \* one record per call of checkAndApplyUpdate
    session,                \* which session of the extension host this is
    content,                \* CreateFromContent: the text of the environment file
    initialEnv,             \* CreateFromContent: the baseline list
    parsed,                 \* the ParsedEnvironmentFile it returned
    envFile,                \* CreateFromFile: "none" (the caller holds the text),
                            \* or whether the file can be read: readable, missing
    activatedPreviously,    \* extension.ts:42: made (the object exists in this host)
                            \* and Value (what the workspace state keeps)
    tempCommands,           \* extension.ts:41, its length
    intervalTimer,          \* extension.ts:38: none, live or cleared
    taskProvider,           \* extension.ts:47 and 48, codeActionProvider goes with
                            \* it: none, registered or disposed
    activations,            \* runs of realActivation that reached their end
    activationEvent,        \* onActivationEvent was called in this session
    activateCalled,         \* activate was called in this session
    lastCall,               \* the last call of an exported function and how it ended
    environment,            \* what getBuildTasks finds: the active editor, the
                            \* platform, the settings and the compilers the client knows
    buildTasks              \* what getBuildTasks returned, once it has

vars == <<updateChannel, realActivationOccurred, insiderUpdateTimer, liveTimers,
          timerArg, nTimers, buildInfoCache, suggestInsiders, suggest,
          channelUpdatePending, proxyGlobal, proxyWorkspace, installPath,
          nCycles, cycles, session, content, initialEnv, parsed, envFile,
          activatedPreviously, tempCommands, intervalTimer, taskProvider,
          activations, activationEvent, activateCalled, lastCall,
          environment, buildTasks>>

\* the state of the update logic, which lives in one extension host
updateVars == <<updateChannel, realActivationOccurred, insiderUpdateTimer,
                liveTimers, timerArg, nTimers, buildInfoCache, suggestInsiders,
                suggest, channelUpdatePending, proxyGlobal, proxyWorkspace,
                installPath, nCycles, cycles, session>>

\* the input and the result of the environment-file parser
parserVars == <<content, initialEnv, parsed, envFile>>

\* what activate, onActivationEvent and deactivate work on
hostVars == <<activatedPreviously, tempCommands, intervalTimer, taskProvider,
              activations, activationEvent, activateCalled, lastCall,
              environment, buildTasks>>

\* what getBuildTasks reads and what it returns
taskVars == <<environment, buildTasks>>

NoCall == [name |-> "none", result |-> "none"]

\* A string is a sequence of tokens, a path a sequence of names and
\* separators; the empty sequence stands for "", null and undefined, which the
\* code tells apart nowhere: it only asks whether the string is truthy.
Sep == "/"
BSep == "\\"
DoubleBSep == "\\\\"

\* The window has no active editor, and nothing is configured.
NoEnvironment ==
    [editor |-> FALSE, fileExt |-> "", isWindows |-> FALSE, disabled |-> FALSE,
     user |-> [compilerPath |-> <<>>, compilerName |-> <<>>, additionalArgs |-> <<>>],
     known |-> [defined |-> FALSE, list |-> <<>>]]


\* The module has been loaded in a workspace that was never activated: the
\* initialisers of lines 38-48, and the default of "activatedPreviously".
HostInit ==
    /\ activatedPreviously = [made |-> FALSE, Value |-> FALSE]
    /\ tempCommands = 0
    /\ intervalTimer = "none"
    /\ taskProvider = "none"
    /\ activations = 0
    /\ activationEvent = FALSE
    /\ activateCalled = FALSE
    /\ lastCall = NoCall
    /\ environment = NoEnvironment
    /\ buildTasks = [returned |-> FALSE, tasks |-> <<>>]

\* The record of a call of checkAndApplyUpdate that has not been made yet.
NoCycle ==
    [pc |-> "none",             \* none, feed, tmp, download, install, done, failed, noupdate
     updateChannel |-> "none",  \* the argument of checkAndApplyUpdate
     from |-> "none",           \* startup, timer or settings
     buildInfo |-> Null,        \* the channel the descriptor was fetched for
     feedRequests |-> 0,        \* calls of getTargetBuildInfo
     originalProxySupport |-> "none",
     startProxy |-> "none",     \* global http.proxySupport when the cycle started, or
                                \* Overlapped once another cycle was in flight with it
     proxyAtCall |-> "none",    \* global http.proxySupport when the call was made
     vsixFile |-> "none",       \* the file of tmp.file: none, created (cleanupCallback
                                \* not called yet) or released
     attempts |-> 0,            \* calls of downloadFileToDestination
     offWrites |-> 0,           \* config.update('http.proxySupport', "off")
     proxyAtInstall |-> "none", \* global http.proxySupport when installVsix was called
     install |-> "none",        \* the promise of installVsix: none, pending, resolved, rejected
     process |-> "none",        \* none, running, nopid, exited
     killed |-> FALSE,          \* process.kill() was called
     timer |-> "none",          \* the 30 s timeout: none, armed, fired, cleared
     firstEvent |-> "none",     \* the first of launchfail, exit0, exitnz, timeout, data
     sentOverride |-> FALSE,
     tokens |-> 0,              \* writes of '0\n' to the process's stdin
     dataEvents |-> 0,
     prompt |-> FALSE,          \* util.promptReloadWindow was called
     applyResult |-> "none",    \* the promise returned by applyUpdate
     result |-> "none"]         \* the promise returned by checkAndApplyUpdate

\* `let warning: string = null'; a string is a sequence of characters
NullWarning == <<Null>>

\* before CreateFromContent has returned
\* (thrown: the exception that left the call instead of a result)
NotParsed ==
    [returned |-> FALSE, Env |-> <<>>, Warning |-> NullWarning, thrown |-> "none"]

\* suggestInsidersChannel before it is called: where the call is, its promise,
\* how often it has shown the prompt and what the user selected
NoSuggestion == [pc |-> "none", result |-> "none", prompts |-> 0, selection |-> "none"]

InFlight(c) == cycles[c].pc \in {"feed", "tmp", "download", "install"}

\* startProxy of a cycle that did not run alone
Overlapped == "overlapped"

\* No other cycle has been in flight together with cycle c.
Alone(c) == cycles[c].startProxy # Overlapped

\* config.get('http.proxySupport'): workspace value, else global value, else default
Effective(global) ==
    IF proxyWorkspace # Undefined THEN proxyWorkspace
    ELSE IF global # Undefined THEN global
    ELSE ProxyDefault

Init ==
    /\ updateChannel \in Channels
    /\ realActivationOccurred = FALSE
    /\ insiderUpdateTimer = NoTimer
    /\ liveTimers = {}
    /\ timerArg = [t \in Cycles |-> "none"]
    /\ nTimers = 0
    /\ buildInfoCache = Null
    /\ suggestInsiders \in BOOLEAN
    /\ suggest = NoSuggestion
    /\ channelUpdatePending = FALSE
    /\ proxyGlobal \in ProxyGlobalValues
    /\ proxyWorkspace \in ProxyWorkspaceValues
    /\ installPath \in InstallPaths
    /\ nCycles = 0
    /\ cycles = [c \in Cycles |-> NoCycle]
    /\ session = 1
    /\ content = <<>>
    /\ initialEnv = <<>>
    /\ parsed = NotParsed
    /\ envFile = "none"
    /\ HostInit

----------------------------------------------------------------------------
\* Promises.

\* resolve() and reject() settle a promise only the first time.
Settle(state, outcome) == IF state = "pending" THEN outcome ELSE state

\* Mutant of Catch: the rejection is not caught.
CatchMissing(outcome) == outcome

\* promise.catch(handler) with a handler that returns normally
Catch(outcome) == IF outcome = "rejected" THEN "resolved" ELSE outcome

\* `await p' inside an async function with no try around it
Await(outcome) == outcome

----------------------------------------------------------------------------
\* checkAndApplyUpdate, up to its first await.

\* applyUpdate up to tmp.file(...): the record of a cycle that has a descriptor
applyUpdate(r, buildInfo) ==
    [r EXCEPT !.pc = "tmp", !.buildInfo = buildInfo, !.applyResult = "pending"]

\* The calls of checkAndApplyUpdate the model follows in one session: the larger
\* number in the first session of a host that installs by command.
CycleBound ==
    IF installPath = "command" /\ session = 1 THEN MaxCycles ELSE MaxSpawnCycles

\* Mutant of checkAndApplyUpdateStart: the cache is not consulted.
checkAndApplyUpdateStartAlwaysFetches(channel, from) ==
    [NoCycle EXCEPT !.updateChannel = channel, !.from = from, !.result = "pending",
                    !.proxyAtCall = proxyGlobal,
                    !.startProxy = IF \A d \in Cycles : ~InFlight(d)
                                   THEN proxyGlobal ELSE Overlapped,
                    !.pc = "feed", !.feedRequests = 1]

\* the record of the new call
checkAndApplyUpdateStart(channel, from) ==
    LET buildInfo == buildInfoCache
        r == [NoCycle EXCEPT !.updateChannel = channel, !.from = from,
                             !.result = "pending",
                             !.proxyAtCall = proxyGlobal,
                             !.startProxy = IF \A d \in Cycles : ~InFlight(d)
                                            THEN proxyGlobal ELSE Overlapped]
    IN  IF buildInfo = Null
        THEN [r EXCEPT !.pc = "feed", !.feedRequests = 1]
        ELSE applyUpdate(r, buildInfo)

checkAndApplyUpdate(channel, from) ==
    /\ nCycles < CycleBound
    /\ nCycles' = nCycles + 1
    /\ buildInfoCache' = Null
    /\ cycles' = [d \in Cycles |->
                    IF d = nCycles + 1 THEN checkAndApplyUpdateStart(channel, from)
                    ELSE IF InFlight(d) THEN [cycles[d] EXCEPT !.startProxy = Overlapped]
                    ELSE cycles[d]]

\* setInterval(checkAndApplyUpdate, insiderUpdateTimerInterval, arg)
setInterval(arg) ==
    /\ nTimers' = nTimers + 1
    /\ insiderUpdateTimer' = nTimers + 1
    /\ liveTimers' = liveTimers \cup {nTimers + 1}
    /\ timerArg' = [timerArg EXCEPT ![nTimers + 1] = arg]

\* clearInterval(insiderUpdateTimer)
clearInterval(timers) == timers \ {insiderUpdateTimer}

----------------------------------------------------------------------------
\* Mutant of suggestInsidersChannelStart: the persisted flag is not read.
suggestInsidersChannelStartIgnoresFlag ==
    [suggest EXCEPT !.pc = "feed", !.result = "pending"]

\* suggestInsidersChannel, up to its first await.
suggestInsidersChannelStart ==
    IF ~suggestInsiders
    THEN [suggest EXCEPT !.pc = "returned", !.result = "resolved"]
    ELSE [suggest EXCEPT !.pc = "feed", !.result = "pending"]

\* realActivation from line 425 to its end: the flag, the start of the update
\* logic and the 2.5 s interval timer.
realActivationCompletes ==
    /\ realActivationOccurred' = TRUE
    /\ IF updateChannel = "Default"
       THEN /\ suggest' = suggestInsidersChannelStart
            /\ UNCHANGED <<insiderUpdateTimer, liveTimers, timerArg, nTimers,
                           buildInfoCache, nCycles, cycles>>
       ELSE /\ setInterval(updateChannel)
            /\ checkAndApplyUpdate(updateChannel, "startup")
            /\ UNCHANGED suggest
    /\ intervalTimer' = "live"
    /\ activations' = activations + 1
    /\ UNCHANGED <<session, parserVars, updateChannel, suggestInsiders, channelUpdatePending,
                   proxyGlobal, proxyWorkspace, installPath>>

\* realActivation was not called, or it threw at line 410 because
\* C_Cpp.intelliSenseEngine is "Disabled".
noRealActivation ==
    UNCHANGED <<session, parserVars, updateChannel, realActivationOccurred,
                insiderUpdateTimer, liveTimers, timerArg, nTimers, buildInfoCache,
                suggestInsiders, suggest, channelUpdatePending, proxyGlobal,
                proxyWorkspace, installPath, nCycles, cycles, intervalTimer,
                activations>>

\* realActivation, called by one of those who call it when the flag is false.
realActivation ==
    /\ ~realActivationOccurred
    /\ realActivationCompletes
    /\ UNCHANGED <<activatedPreviously, tempCommands, taskProvider, activationEvent,
                   activateCalled, lastCall, taskVars>>

\* Mutant of SuggestFeedAnswers: a feed that fails silences the suggestion.
SuggestFeedAnswersFailureSilences(answer) ==
    /\ suggest.pc = "feed"
    /\ suggest' = IF answer = "build"
                  THEN [suggest EXCEPT !.pc = "prompt", !.prompts = @ + 1]
                  ELSE [suggest EXCEPT !.pc = "returned", !.result = "resolved"]
    /\ suggestInsiders' = IF answer = "error" THEN FALSE ELSE suggestInsiders
    /\ UNCHANGED <<session, parserVars, hostVars, updateChannel, realActivationOccurred,
                   insiderUpdateTimer, liveTimers, timerArg, nTimers, buildInfoCache,
                   channelUpdatePending, proxyGlobal, proxyWorkspace, installPath,
                   nCycles, cycles>>

\* getTargetBuildInfo("Insiders") answers suggestInsidersChannel.
SuggestFeedAnswers(answer) ==
    /\ suggest.pc = "feed"
    /\ suggest' = IF answer = "build"
                  THEN [suggest EXCEPT !.pc = "prompt", !.prompts = @ + 1]
                  ELSE [suggest EXCEPT !.pc = "returned", !.result = "resolved"]
    /\ UNCHANGED <<session, parserVars, hostVars, updateChannel, realActivationOccurred, insiderUpdateTimer,
                   liveTimers, timerArg, nTimers, buildInfoCache, suggestInsiders,
                   channelUpdatePending, proxyGlobal, proxyWorkspace, installPath,
                   nCycles, cycles>>

\* Mutant of SuggestAnswer: "Yes" switches the channel and caches nothing.
SuggestAnswerNoCache(selection) ==
    /\ suggest.pc = "prompt"
    /\ suggest' = [suggest EXCEPT !.pc = "returned", !.result = "resolved",
                                  !.selection = selection]
    /\ channelUpdatePending' = IF selection = "Yes" THEN TRUE ELSE channelUpdatePending
    /\ suggestInsiders' = IF selection = "Don't Show Again" THEN FALSE ELSE suggestInsiders
    /\ UNCHANGED <<session, parserVars, hostVars, updateChannel, realActivationOccurred,
                   insiderUpdateTimer, liveTimers, timerArg, nTimers, buildInfoCache,
                   proxyGlobal, proxyWorkspace, installPath, nCycles, cycles>>

\* Mutant of SuggestAnswer: every answer switches the channel.
SuggestAnswerAlwaysSwitches(selection) ==
    /\ suggest.pc = "prompt"
    /\ suggest' = [suggest EXCEPT !.pc = "returned", !.result = "resolved",
                                  !.selection = selection]
    /\ buildInfoCache' = IF selection = "Yes" THEN "Insiders" ELSE buildInfoCache
    /\ channelUpdatePending' = TRUE
    /\ suggestInsiders' = IF selection = "Don't Show Again" THEN FALSE ELSE suggestInsiders
    /\ UNCHANGED <<session, parserVars, hostVars, updateChannel, realActivationOccurred,
                   insiderUpdateTimer, liveTimers, timerArg, nTimers, proxyGlobal,
                   proxyWorkspace, installPath, nCycles, cycles>>

\* The user answers the suggestion (or dismisses it).
SuggestAnswer(selection) ==
    /\ suggest.pc = "prompt"
    /\ suggest' = [suggest EXCEPT !.pc = "returned", !.result = "resolved",
                                  !.selection = selection]
    /\ buildInfoCache' = IF selection = "Yes" THEN "Insiders" ELSE buildInfoCache
    /\ channelUpdatePending' = IF selection = "Yes" THEN TRUE ELSE channelUpdatePending
    /\ suggestInsiders' = IF selection = "Don't Show Again" THEN FALSE ELSE suggestInsiders
    /\ UNCHANGED <<session, parserVars, hostVars, updateChannel, realActivationOccurred, insiderUpdateTimer,
                   liveTimers, timerArg, nTimers, proxyGlobal, proxyWorkspace,
                   installPath, nCycles, cycles>>

\* Mutant of onDidChangeSettings: a change to Default leaves the timer running.
onDidChangeSettingsKeepsTimer(newUpdateChannel) ==
    /\ IF newUpdateChannel = "Default"
       THEN UNCHANGED <<liveTimers, insiderUpdateTimer, timerArg, nTimers>>
       ELSE setInterval(Undefined)
    /\ checkAndApplyUpdate(newUpdateChannel, "settings")

\* onDidChangeSettings for a change of updateChannel to newUpdateChannel
onDidChangeSettings(newUpdateChannel) ==
    /\ IF newUpdateChannel = "Default"
       THEN /\ liveTimers' = clearInterval(liveTimers)
            /\ UNCHANGED <<insiderUpdateTimer, timerArg, nTimers>>
       ELSE setInterval(Undefined)
    /\ checkAndApplyUpdate(newUpdateChannel, "settings")

\* The update of C_Cpp.updateChannel made by the answer "Yes" takes effect.
ChannelUpdateApplied ==
    /\ channelUpdatePending
    /\ channelUpdatePending' = FALSE
    /\ IF updateChannel # "Insiders"
       THEN /\ updateChannel' = "Insiders"
            /\ onDidChangeSettings("Insiders")
       ELSE UNCHANGED <<updateChannel, insiderUpdateTimer, liveTimers, timerArg,
                        nTimers, buildInfoCache, nCycles, cycles>>
    /\ UNCHANGED <<session, parserVars, hostVars, realActivationOccurred, suggestInsiders, suggest, proxyGlobal,
                   proxyWorkspace, installPath>>

\* Mutant of UserChangesChannel: the handler is told of the setting although
\* its value is the one it had.
UserChangesChannelAnyValue(newUpdateChannel) ==
    /\ updateChannel' = newUpdateChannel
    /\ IF realActivationOccurred
       THEN onDidChangeSettings(newUpdateChannel)
       ELSE UNCHANGED <<insiderUpdateTimer, liveTimers, timerArg, nTimers,
                        buildInfoCache, nCycles, cycles>>
    /\ UNCHANGED <<session, parserVars, hostVars, realActivationOccurred, suggestInsiders, suggest,
                   channelUpdatePending, proxyGlobal, proxyWorkspace, installPath>>

\* The user edits C_Cpp.updateChannel.
UserChangesChannel(newUpdateChannel) ==
    /\ newUpdateChannel # updateChannel
    /\ updateChannel' = newUpdateChannel
    /\ IF realActivationOccurred
       THEN onDidChangeSettings(newUpdateChannel)
       ELSE UNCHANGED <<insiderUpdateTimer, liveTimers, timerArg, nTimers,
                        buildInfoCache, nCycles, cycles>>
    /\ UNCHANGED <<session, parserVars, hostVars, realActivationOccurred, suggestInsiders, suggest,
                   channelUpdatePending, proxyGlobal, proxyWorkspace, installPath>>

\* An interval timer fires.
TimerTick(t) ==
    /\ t \in liveTimers
    /\ checkAndApplyUpdate(timerArg[t], "timer")
    /\ UNCHANGED <<session, parserVars, hostVars, updateChannel, realActivationOccurred, insiderUpdateTimer,
                   liveTimers, timerArg, nTimers, suggestInsiders, suggest,
                   channelUpdatePending, proxyGlobal, proxyWorkspace, installPath>>

----------------------------------------------------------------------------
\* One cycle: checkAndApplyUpdate, applyUpdate, installVsix.

\* The promise made at the top of applyUpdate settles with outcome: the .catch
\* at its end, then the `await applyUpdate(buildInfo)' of checkAndApplyUpdate.
applyUpdateSettled(r, outcome) ==
    LET caught == Catch(outcome)
    IN  [r EXCEPT !.pc = IF outcome = "resolved" THEN "done" ELSE "failed",
                  !.applyResult = caught,
                  !.result = Await(caught)]

\* Mutant of checkAndApplyUpdateFeed: applyUpdate is called without a descriptor too.
checkAndApplyUpdateFeedAlwaysApplies(r, answer) ==
    applyUpdate(r, IF answer = "build" THEN r.updateChannel ELSE Null)

\* getTargetBuildInfo(updateChannel) answers checkAndApplyUpdate.
checkAndApplyUpdateFeed(r, answer) ==
    LET tried == Catch(IF answer = "error" THEN "rejected" ELSE "resolved")
    IN  IF tried = "rejected"
        THEN [r EXCEPT !.pc = "failed", !.result = "rejected"]
        ELSE IF answer = "build"
        THEN applyUpdate(r, r.updateChannel)
        ELSE [r EXCEPT !.pc = "noupdate", !.result = "resolved"]

FeedAnswers(c, answer) ==
    /\ cycles[c].pc = "feed"
    /\ cycles' = [cycles EXCEPT ![c] = checkAndApplyUpdateFeed(@, answer)]
    /\ UNCHANGED <<session, parserVars, hostVars, updateChannel, realActivationOccurred, insiderUpdateTimer,
                   liveTimers, timerArg, nTimers, buildInfoCache, suggestInsiders,
                   suggest, channelUpdatePending, proxyGlobal, proxyWorkspace,
                   installPath, nCycles>>

\* The callback of tmp.file runs, up to the first download.
tmpFileCallback(r, err) ==
    IF err
    THEN applyUpdateSettled(r, "rejected")
    ELSE [r EXCEPT !.pc = "download",
                   !.vsixFile = "created",
                   !.originalProxySupport = proxyGlobal,
                   !.attempts = 1]

TmpFileCallback(c, err) ==
    /\ cycles[c].pc = "tmp"
    /\ cycles' = [cycles EXCEPT ![c] = tmpFileCallback(@, err)]
    /\ UNCHANGED <<session, parserVars, hostVars, updateChannel, realActivationOccurred, insiderUpdateTimer,
                   liveTimers, timerArg, nTimers, buildInfoCache, suggestInsiders,
                   suggest, channelUpdatePending, proxyGlobal, proxyWorkspace,
                   installPath, nCycles>>

\* Mutant of downloadFailed: the original value is not written back.
downloadFailedNoReset(r, get) ==
    IF r.originalProxySupport # proxyGlobal THEN "fail"
    ELSE IF get # "off" /\ r.originalProxySupport # "off" THEN "retry"
    ELSE "fail"

\* What the catch block of the download loop does: "reset" (write the original
\* value back and give up), "retry" (switch to "off" and download again) or
\* "fail".  get is the value config.get('http.proxySupport') returns.
downloadFailed(r, get) ==
    IF r.originalProxySupport # proxyGlobal THEN "reset"
    ELSE IF get # "off" /\ r.originalProxySupport # "off" THEN "retry"
    ELSE "fail"

\* Mutant of downloadSucceeded: the setting is left as the retry needed it.
downloadSucceededNoReset(r) == "keep"

\* What the loop does after a download that worked: "reset" writes the original
\* value back, "keep" leaves the setting alone.
downloadSucceeded(r) ==
    IF r.originalProxySupport # proxyGlobal THEN "reset" ELSE "keep"

\* one more, as far as the count goes
Counted(n) == IF n < MaxAttempts THEN n + 1 ELSE n

\* installVsix(vsixPath), up to the point where it waits for its mechanism.
installVsix(r) ==
    [r EXCEPT !.pc = "install", !.install = "pending"]

\* downloadFileToDestination answers.  config was obtained before the loop;
\* whether its get() follows later updates is left open.
DownloadAnswers(c, ok) ==
    LET r == cycles[c] IN
    /\ r.pc = "download"
    /\ IF ok
       THEN /\ proxyGlobal' = IF downloadSucceeded(r) = "reset"
                              THEN r.originalProxySupport ELSE proxyGlobal
            /\ cycles' = [cycles EXCEPT ![c] =
                            installVsix([r EXCEPT !.proxyAtInstall = proxyGlobal'])]
       ELSE \E get \in {Effective(r.originalProxySupport), Effective(proxyGlobal)} :
               LET todo == downloadFailed(r, get) IN
               /\ proxyGlobal' = IF todo = "reset" THEN r.originalProxySupport
                                 ELSE IF todo = "retry" THEN "off"
                                 ELSE proxyGlobal
               /\ cycles' = [cycles EXCEPT ![c] =
                               IF todo = "retry"
                               THEN [r EXCEPT !.attempts = Counted(@), !.offWrites = Counted(@)]
                               ELSE applyUpdateSettled(r, "rejected")]
    /\ UNCHANGED <<session, parserVars, hostVars, updateChannel, realActivationOccurred, insiderUpdateTimer,
                   liveTimers, timerArg, nTimers, buildInfoCache, suggestInsiders,
                   suggest, channelUpdatePending, proxyWorkspace, installPath,
                   nCycles>>

----------------------------------------------------------------------------
\* installVsix and the rest of applyUpdate.

\* resolve(...) or reject(...) of the promise of installVsix, caused by event
settleInstall(r, outcome, event) ==
    [r EXCEPT !.install = Settle(@, outcome),
              !.firstEvent = IF @ = "none" THEN event ELSE @]

\* clearInterval(timer) on the 30 s timeout
clearTimeout(r) == [r EXCEPT !.timer = IF @ = "armed" THEN "cleared" ELSE @]

\* applyUpdate after `await installVsix(vsixPath)' returned normally
installed(r) == [applyUpdateSettled(r, "resolved") EXCEPT !.prompt = TRUE]

\* Mutant of installFailed: the reload prompt is shown on failure too.
installFailedPrompts(r) == [applyUpdateSettled(r, "rejected") EXCEPT !.prompt = TRUE]

\* applyUpdate after `await installVsix(vsixPath)' threw
installFailed(r) == applyUpdateSettled(r, "rejected")

\* Mutant of timersAfterInstall: the timer is left running after an install.
timersAfterInstallNever(timers, succeeded) == timers

\* Mutant of timersAfterInstall: the timer is cleared on failure too.
timersAfterInstallAlways(timers, succeeded) == clearInterval(timers)

\* the interval timers left by the end of applyUpdate
timersAfterInstall(timers, succeeded) ==
    IF succeeded THEN clearInterval(timers) ELSE timers

\* A callback of installVsix has turned the record of cycle c into r; when it
\* settled the promise, applyUpdate goes on behind its await.
InstallEvent(c, r) ==
    LET settledNow == cycles[c].install = "pending" /\ r.install # "pending"
        succeeded == settledNow /\ r.install = "resolved"
    IN  /\ cycles' = [cycles EXCEPT ![c] =
                        IF ~settledNow THEN r
                        ELSE IF succeeded THEN installed(r)
                        ELSE installFailed(r)]
        /\ liveTimers' = timersAfterInstall(liveTimers, succeeded)
        /\ UNCHANGED <<session, parserVars, hostVars, updateChannel, realActivationOccurred, insiderUpdateTimer,
                       timerArg, nTimers, buildInfoCache, suggestInsiders, suggest,
                       channelUpdatePending, proxyGlobal, proxyWorkspace,
                       installPath, nCycles>>

\* workbench.extensions.installExtension answers (vscode.version > 1.32.3).
CommandAnswers(c, ok) ==
    /\ installPath = "command"
    /\ cycles[c].install = "pending"
    /\ InstallEvent(c, settleInstall(cycles[c],
                                     IF ok THEN "resolved" ELSE "rejected", "command"))

\* The callback of GetPlatformInformation().then: find the script and spawn it.
\* outcome: noscript, spawnthrows (spawn throws), nopid (process.pid undefined), ok
spawnInstall(r, outcome) ==
    IF outcome = "noscript" THEN settleInstall(r, "rejected", "noscript")
    ELSE IF outcome = "spawnthrows" THEN settleInstall(r, "rejected", "launchfail")
    ELSE IF outcome = "nopid"
    THEN settleInstall([r EXCEPT !.process = "nopid",
                                 !.timer = IF installPath = "exitcode" THEN "armed" ELSE @],
                       "rejected", "launchfail")
    ELSE [r EXCEPT !.process = "running", !.timer = "armed"]

PlatformInformation(c, outcome) ==
    /\ installPath # "command"
    /\ cycles[c].install = "pending"
    /\ cycles[c].process = "none"
    /\ InstallEvent(c, spawnInstall(cycles[c], outcome))

\* Mutant of exitOutcome: the exit code is ignored.
exitOutcomeAnyCode(code) == "resolved"

\* reject or resolve chosen by the 'exit' handler
exitOutcome(code) == IF code # 0 THEN "rejected" ELSE "resolved"

\* process.on('exit', ...) of the exit-code branch
onExit(r, code) ==
    settleInstall(clearTimeout(r), exitOutcome(code),
                  IF code # 0 THEN "exitnz" ELSE "exit0")

\* The spawned process exits; only the exit-code branch listens.
ProcessExits(c, code) ==
    LET r == [cycles[c] EXCEPT !.process = "exited"] IN
    /\ \/ cycles[c].process = "running"
       \/ cycles[c].process = "nopid" /\ installPath = "exitcode" /\ code # 0
    /\ InstallEvent(c, IF installPath = "exitcode" THEN onExit(r, code) ELSE r)

\* the callback of setTimeout(..., 30000)
onTimeout(r) ==
    settleInstall([r EXCEPT !.timer = "fired",
                            !.killed = (r.process = "running")],
                  "rejected", "timeout")

\* 30 s have passed since the process was spawned and the timer is still armed.
TimeoutFires(c) ==
    /\ cycles[c].timer = "armed"
    /\ InstallEvent(c, onTimeout(cycles[c]))

\* Mutant of onData: sentOverride is not consulted.
onDataEveryTime(r) ==
    settleInstall(clearTimeout([r EXCEPT !.tokens = @ + 1, !.sentOverride = TRUE]),
                  "resolved", "data")

\* process.stdout.on('data', ...) of the standard-stream branch
onData(r) ==
    IF r.sentOverride THEN r
    ELSE settleInstall(clearTimeout([r EXCEPT !.tokens = @ + 1, !.sentOverride = TRUE]),
                       "resolved", "data")

\* The spawned process writes to its stdout.
ProcessData(c) ==
    /\ installPath = "stdio"
    /\ cycles[c].process = "running"
    /\ cycles[c].dataEvents < MaxData
    /\ InstallEvent(c, onData([cycles[c] EXCEPT !.dataEvents = @ + 1]))

----------------------------------------------------------------------------
Next ==
    \/ realActivation
    \/ \E answer \in {"build", "none", "error"} : SuggestFeedAnswers(answer)
    \/ \E selection \in {"Yes", "Ask Me Later", "Don't Show Again", Undefined} :
          SuggestAnswer(selection)
    \/ ChannelUpdateApplied
    \/ \E newUpdateChannel \in Channels : UserChangesChannel(newUpdateChannel)
    \/ \E t \in liveTimers : TimerTick(t)
    \/ \E c \in Cycles, answer \in {"build", "none", "error"} : FeedAnswers(c, answer)
    \/ \E c \in Cycles, err \in BOOLEAN : TmpFileCallback(c, err)
    \/ \E c \in Cycles, ok \in BOOLEAN : DownloadAnswers(c, ok)
    \/ \E c \in Cycles, ok \in BOOLEAN : CommandAnswers(c, ok)
    \/ \E c \in Cycles, outcome \in {"noscript", "spawnthrows", "nopid", "ok"} :
          PlatformInformation(c, outcome)
    \/ \E c \in Cycles, code \in {0, 1} : ProcessExits(c, code)
    \/ \E c \in Cycles : TimeoutFires(c)
    \/ \E c \in Cycles : ProcessData(c)

Spec == Init /\ [][Next]_vars

----------------------------------------------------------------------------
\* The exported functions of the module and the activation event.

Called(name, threw) == [name |-> name, result |-> IF threw THEN "thrown" ELSE "returned"]

\* Mutant of activate: the flag realActivationOccurred is not looked at.
activateNoGuard(activationEventOccurred, disabled, found) ==
    LET auto == activatedPreviously.Value
        event == activationEventOccurred \/ found
        wants == auto \/ event
        throws == wants /\ disabled
        inEvent == throws /\ ~auto
    IN  /\ lastCall.name # "deactivate"
        /\ UNCHANGED taskVars
        /\ activateCalled' = TRUE
        /\ lastCall' = Called("activate", throws)
        /\ IF wants /\ ~disabled
           THEN realActivationCompletes ELSE noRealActivation
        /\ activatedPreviously' =
              [made |-> TRUE, Value |-> ~throws /\ event]
        /\ tempCommands' = IF throws THEN (IF inEvent THEN 0 ELSE tempCommands)
                           ELSE IF event THEN 0 ELSE 1
        /\ taskProvider' = IF (throws /\ ~inEvent) \/ activationEventOccurred
                           THEN taskProvider ELSE "registered"
        /\ activationEvent' = IF throws /\ ~inEvent THEN activationEvent
                              ELSE activationEvent \/ event

\* activate(activationEventOccurred).  disabled: C_Cpp.intelliSenseEngine is
\* "Disabled"; found: a c_cpp_properties.json or an open C or C++ document is
\* there (lines 209-228).
activate(activationEventOccurred, disabled, found) ==
    LET auto == activatedPreviously.Value
        event == activationEventOccurred \/ found
        wants == auto \/ event          \* realActivation is called
        throws == wants /\ disabled
        inEvent == throws /\ ~auto       \* it throws inside onActivationEvent
    IN  /\ lastCall.name # "deactivate"
        /\ UNCHANGED taskVars
        /\ activateCalled' = TRUE
        /\ IF realActivationOccurred
           THEN /\ lastCall' = Called("activate", FALSE)
                /\ noRealActivation
                /\ UNCHANGED <<activatedPreviously, tempCommands, taskProvider,
                               activationEvent>>
           ELSE /\ lastCall' = Called("activate", throws)
                /\ IF wants /\ ~disabled
                   THEN realActivationCompletes ELSE noRealActivation
                /\ activatedPreviously' =
                      [made |-> TRUE, Value |-> ~throws /\ event]
                /\ tempCommands' = IF throws THEN (IF inEvent THEN 0 ELSE tempCommands)
                                   ELSE IF event THEN 0 ELSE 1
                /\ taskProvider' = IF (throws /\ ~inEvent) \/ activationEventOccurred
                                   THEN taskProvider ELSE "registered"
                /\ activationEvent' = IF throws /\ ~inEvent THEN activationEvent
                                      ELSE activationEvent \/ event

\* onActivationEvent(), called by onDidOpenTextDocument for a C or C++ document.
onActivationEvent(disabled) ==
    LET throws == (~realActivationOccurred /\ disabled) \/ ~activatedPreviously.made
    IN  /\ lastCall.name # "deactivate"
        /\ UNCHANGED taskVars
        /\ activationEvent' = TRUE
        /\ IF tempCommands = 0
           THEN /\ lastCall' = Called("onActivationEvent", FALSE)
                /\ noRealActivation
                /\ UNCHANGED <<activatedPreviously, tempCommands>>
           ELSE /\ lastCall' = Called("onActivationEvent", throws)
                /\ tempCommands' = 0
                /\ IF ~realActivationOccurred /\ ~disabled
                   THEN realActivationCompletes ELSE noRealActivation
                /\ activatedPreviously' =
                      IF throws THEN activatedPreviously
                      ELSE [activatedPreviously EXCEPT !.Value = TRUE]
        /\ UNCHANGED <<taskProvider, activateCalled>>

\* getClients() and getActiveClient()
getClients(name, disabled) ==
    /\ lastCall.name # "deactivate"
    /\ lastCall' = Called(name, ~realActivationOccurred /\ disabled)
    /\ IF ~realActivationOccurred /\ ~disabled
       THEN realActivationCompletes ELSE noRealActivation
    /\ UNCHANGED <<activatedPreviously, tempCommands, taskProvider, activationEvent,
                   activateCalled>>

\* deactivate(): ui and clients are undefined until realActivation has passed
\* line 427, and ui.dispose() throws a TypeError then, behind the two
\* clearInterval calls and before the providers are disposed of.
deactivate ==
    /\ lastCall.name # "deactivate"
    /\ lastCall' = Called("deactivate", ~realActivationOccurred)
    /\ intervalTimer' = IF intervalTimer = "live" THEN "cleared" ELSE intervalTimer
    /\ liveTimers' = clearInterval(liveTimers)
    /\ taskProvider' = IF realActivationOccurred /\ taskProvider = "registered"
                       THEN "disposed" ELSE taskProvider
    /\ UNCHANGED <<session, parserVars, updateChannel, realActivationOccurred,
                   insiderUpdateTimer, timerArg, nTimers, buildInfoCache,
                   suggestInsiders, suggest, channelUpdatePending, proxyGlobal,
                   proxyWorkspace, installPath, nCycles, cycles, activatedPreviously,
                   tempCommands, activations, activationEvent, activateCalled,
                   taskVars>>

----------------------------------------------------------------------------
\* getBuildTasks.

\* the extensions path.extname can give; "" when the file name has none
FileExts == {"", ".h", ".HPP", ".c", ".C", ".cpp", ".CC", ".txt"}

toLowerCase(ext) ==
    CASE ext = ".HPP" -> ".hpp"
      [] ext = ".C" -> ".c"
      [] ext = ".CC" -> ".cc"
      [] OTHER -> ext

isHeader(fileExt) ==
    fileExt = "" \/ toLowerCase(fileExt) \in {".hpp", ".hh", ".hxx", ".h", ".inl", ""}

\* ".C" is both C and C++
fileIsCpp(fileExt) ==
    fileExt = ".C" \/ toLowerCase(fileExt) \in {".cpp", ".cc", ".cxx", ".mm", ".ino"}

fileIsC(fileExt) == fileExt = ".C" \/ toLowerCase(fileExt) = ".c"

Positions(s, tokens) == {i \in 1..Len(s) : s[i] \in tokens}

Greatest(S) == CHOOSE i \in S : \A j \in S : i >= j

\* String.prototype.trim
trim(s) ==
    LET inked == (1..Len(s)) \ Positions(s, {" "})
        first == CHOOSE i \in inked : \A j \in inked : i <= j
    IN  IF inked = {} THEN <<>> ELSE SubSeq(s, first, Greatest(inked))

startsWith(s, token) == Len(s) > 0 /\ s[1] = token

\* replace(/\\\\/g, "\\"): two backslashes become one
unescape(s) == [i \in 1..Len(s) |-> IF s[i] = DoubleBSep THEN BSep ELSE s[i]]

\* path.basename and path.dirname of a path that does not end with a
\* separator: win32 takes the slash and the backslash for one, posix only
\* the slash.
basename(p, isWindows) ==
    LET seps == Positions(p, IF isWindows THEN {Sep, BSep, DoubleBSep} ELSE {Sep})
    IN  IF seps = {} THEN p ELSE SubSeq(p, Greatest(seps) + 1, Len(p))

dirname(p, isWindows) ==
    LET seps == Positions(p, IF isWindows THEN {Sep, BSep, DoubleBSep} ELSE {Sep})
    IN  IF seps = {} THEN <<".">>
        ELSE IF Greatest(seps) = 1 THEN <<p[1]>>
        ELSE SubSeq(p, 1, Greatest(seps) - 1)

\* lines 284-292: the user's compiler path as the tasks take it
userCompilerPath(env) ==
    IF env.user.compilerPath # <<>> /\ env.user.compilerName # <<>>
    THEN IF env.isWindows /\ startsWith(trim(env.user.compilerPath), Sep)
         THEN <<>>
         ELSE unescape(trim(env.user.compilerPath))
    ELSE env.user.compilerPath

\* the filter of lines 299-303
offered(env, info) ==
    /\ (fileIsCpp(env.fileExt) /\ ~info.isC) \/ (fileIsC(env.fileExt) /\ info.isC)
    /\ basename(info.path, env.isWindows) # env.user.compilerName
    /\ ~env.isWindows \/ ~startsWith(info.path, Sep)

knownCompilerPaths(env) ==
    LET keep(info) == offered(env, info)
        knownCompilers == SelectSeq(env.known.list, keep)
    IN  [i \in 1..Len(knownCompilers) |-> knownCompilers[i].path]

\* createTask of lines 334-365: what depends on the compiler path
createTask(env, returnCompilerPath, compilerPath, compilerArgs) ==
    LET compilerPathBase == basename(compilerPath, env.isWindows)
        isCl == compilerPathBase = <<"cl.exe">>
        command == IF isCl THEN compilerPathBase ELSE compilerPath
    IN  [label |-> compilerPathBase,
         command |-> command,
         cwd |-> IF isCl THEN <<>> ELSE dirname(compilerPath, env.isWindows),
         args |-> compilerArgs,
         compilerPath |-> IF returnCompilerPath THEN command ELSE <<>>,
         execution |-> compilerPath]

\* the file names a C or C++ source, so that line 274 is reached
asksForClient(env) ==
    /\ env.editor
    /\ ~isHeader(env.fileExt)
    /\ fileIsCpp(env.fileExt) \/ fileIsC(env.fileExt)

\* line 307
noCompilerFound(env) ==
    ~env.known.defined \/ userCompilerPath(env) = <<>>

\* the tasks getBuildTasks returns; threw: getActiveClient threw
getBuildTasks(env, returnCompilerPath, threw) ==
    IF ~asksForClient(env) \/ threw \/ noCompilerFound(env)
    THEN <<>>
    ELSE LET known == IF env.known.defined THEN knownCompilerPaths(env) ELSE <<>>
             tasks == [i \in 1..Len(known) |->
                          createTask(env, returnCompilerPath, known[i], <<>>)]
         IN  IF userCompilerPath(env) # <<>>
             THEN Append(tasks, createTask(env, returnCompilerPath,
                                           userCompilerPath(env),
                                           env.user.additionalArgs))
             ELSE tasks

\* the longest list of known compilers
MaxKnown == 2

gcc == <<Sep, "usr", Sep, "bin", Sep, "gcc">>
gpp == <<Sep, "usr", Sep, "bin", Sep, "g++">>
cl == <<"C:", BSep, "VC", BSep, "cl.exe">>

KnownCompilers ==
    {[path |-> gcc, isC |-> TRUE], [path |-> gpp, isC |-> FALSE],
     [path |-> cl, isC |-> FALSE]}

KnownLists ==
    {[defined |-> FALSE, list |-> <<>>]} \cup
    {[defined |-> TRUE, list |-> l] :
        l \in UNION {[1..n -> KnownCompilers] : n \in 0..MaxKnown}}

\* what getCurrentCompilerPathAndArgs gives: no compiler, a plain path, a path
\* with blanks around it and arguments behind it, a path out of a JSON file
UserCompilers ==
    {[compilerPath |-> <<>>, compilerName |-> <<>>, additionalArgs |-> <<>>],
     [compilerPath |-> gcc, compilerName |-> <<"gcc">>, additionalArgs |-> <<>>],
     [compilerPath |-> <<" ">> \o gpp \o <<" ">>, compilerName |-> <<"g++">>,
      additionalArgs |-> <<"-Wall">>],
     [compilerPath |-> <<"C:", DoubleBSep, "VC", DoubleBSep, "cl.exe">>,
      compilerName |-> <<"cl.exe">>, additionalArgs |-> <<>>]}

Environments ==
    [editor : BOOLEAN, fileExt : FileExts, isWindows : BOOLEAN, disabled : BOOLEAN,
     user : UserCompilers, known : KnownLists]

\* The user opens a file, or closes the last one, and the client has learnt
\* of the compilers.
OpenEditor(env) ==
    /\ environment = NoEnvironment /\ ~buildTasks.returned
    /\ environment' = env
    /\ UNCHANGED <<buildTasks, updateVars, parserVars, activatedPreviously,
                   tempCommands, intervalTimer, taskProvider, activations,
                   activationEvent, activateCalled, lastCall>>

\* getBuildTasks(returnCompilerPath), with the call of getActiveClient it makes
getBuildTasksCall(returnCompilerPath) ==
    LET threw == ~realActivationOccurred /\ environment.disabled
    IN  /\ ~buildTasks.returned
        /\ buildTasks' = [returned |-> TRUE,
                          tasks |-> getBuildTasks(environment, returnCompilerPath, threw)]
        /\ IF asksForClient(environment)
           THEN getClients("getActiveClient", environment.disabled)
           ELSE /\ noRealActivation
                /\ UNCHANGED <<activatedPreviously, tempCommands, taskProvider,
                               activationEvent, activateCalled, lastCall>>
        /\ UNCHANGED environment

----------------------------------------------------------------------------
\* A session that goes on.  The timer callback drops the promise that
\* checkAndApplyUpdate returns, so nothing is left of a call made by a tick
\* once its promise has settled, and the timer goes on ticking.
TickForgotten ==
    /\ nCycles > 0
    /\ cycles[nCycles].from = "timer"
    /\ cycles[nCycles].pc \in {"done", "failed", "noupdate"}
    /\ cycles' = [cycles EXCEPT ![nCycles] = NoCycle]
    /\ nCycles' = nCycles - 1
    /\ UNCHANGED <<session, parserVars, hostVars, updateChannel, realActivationOccurred,
                   insiderUpdateTimer, liveTimers, timerArg, nTimers, buildInfoCache,
                   suggestInsiders, suggest, channelUpdatePending, proxyGlobal,
                   proxyWorkspace, installPath>>

NextLive == Next \/ TickForgotten

\* Whatever a cycle waits for answers in the end: the feed, tmp.file, a
\* download attempt, the install mechanism, the 30 s timeout.
Answers ==
    \A c \in Cycles :
        /\ WF_vars(\E answer \in {"build", "none", "error"} : FeedAnswers(c, answer))
        /\ WF_vars(\E err \in BOOLEAN : TmpFileCallback(c, err))
        /\ WF_vars(\E ok \in BOOLEAN : DownloadAnswers(c, ok))
        /\ WF_vars(\E ok \in BOOLEAN : CommandAnswers(c, ok))
        /\ WF_vars(\E outcome \in {"noscript", "spawnthrows", "nopid", "ok"} :
                      PlatformInformation(c, outcome))
        /\ WF_vars(TimeoutFires(c))

SpecLive == Init /\ [][NextLive]_vars /\ Answers

----------------------------------------------------------------------------
\* Several sessions.  The extension host stops and a new one loads the module:
\* the module-level variables start from their initialisers again, the timers
\* and the running cycles of the old host are gone, and what the configuration
\* store and the PersistentState keep stays.  An update of the channel that
\* was on its way when the host stopped has either reached the store or not.
NewSession ==
    /\ session < MaxSessions
    /\ session' = session + 1
    /\ updateChannel' \in IF channelUpdatePending THEN {updateChannel, "Insiders"}
                          ELSE {updateChannel}
    /\ channelUpdatePending' = FALSE
    /\ realActivationOccurred' = FALSE
    /\ insiderUpdateTimer' = NoTimer
    /\ liveTimers' = {}
    /\ timerArg' = [t \in Cycles |-> "none"]
    /\ nTimers' = 0
    /\ buildInfoCache' = Null
    /\ suggest' = NoSuggestion
    /\ nCycles' = 0
    /\ cycles' = [c \in Cycles |-> NoCycle]
    /\ activatedPreviously' = [activatedPreviously EXCEPT !.made = FALSE]
    /\ tempCommands' = 0
    /\ intervalTimer' = "none"
    /\ taskProvider' = "none"
    /\ activations' = 0
    /\ activationEvent' = FALSE
    /\ activateCalled' = FALSE
    /\ lastCall' = NoCall
    /\ UNCHANGED <<suggestInsiders, proxyGlobal, proxyWorkspace, installPath,
                   parserVars, taskVars>>

\* The first session is the first one after the extension was installed:
\* "CPP.suggestInsiders" has its default value, and so has http.proxySupport,
\* which the user has set at no level.
InitSessions ==
    /\ Init
    /\ suggestInsiders = TRUE
    /\ proxyGlobal = Undefined /\ proxyWorkspace = Undefined

NextSessions == Next \/ NewSession

SpecSessions == InitSessions /\ [][NextSessions]_vars

\* The sessions of one workspace as the activation logic sees them: the calls
\* of the exported functions, the activation events and the end of the host.
InitActivation ==
    /\ Init
    /\ suggestInsiders = TRUE
    /\ proxyGlobal = Undefined /\ proxyWorkspace = Undefined
    /\ installPath = "command"

NextActivation ==
    \/ \E activationEventOccurred, disabled, found \in BOOLEAN :
          activate(activationEventOccurred, disabled, found)
    \/ \E disabled \in BOOLEAN : onActivationEvent(disabled)
    \/ \E disabled \in BOOLEAN :
          getClients("getClients", disabled) /\ UNCHANGED taskVars
    \/ \E disabled \in BOOLEAN :
          getClients("getActiveClient", disabled) /\ UNCHANGED taskVars
    \/ deactivate
    \/ NewSession

SpecActivation == InitActivation /\ [][NextActivation]_vars

\* The build tasks: an environment comes to be and getBuildTasks is called in
\* it, before realActivation or behind it.
NextBuildTasks ==
    \/ \E env \in Environments : OpenEditor(env)
    \/ \E returnCompilerPath \in BOOLEAN : getBuildTasksCall(returnCompilerPath)
    \/ \E disabled \in BOOLEAN :
          /\ ~buildTasks.returned
          /\ getClients("getClients", disabled)
          /\ UNCHANGED taskVars

SpecBuildTasks == InitActivation /\ [][NextBuildTasks]_vars

----------------------------------------------------------------------------
\* ParsedEnvironmentFile.CreateFromContent.  A string is a sequence of
\* characters, a Map is the sequence of its entries in insertion order.

NL == "\n"
BOM == "BOM"
\* what \s matches (U+FEFF is white space in a JavaScript regular expression)
Whitespace == {" ", "\t", "\r", BOM}
\* what . does not match; split("\n") leaves no "\n" in a line
LineTerminators == {"\r"}
\* what [\w\.\-] matches
KeyChars == {"A", "B", "n", "_", ".", "-"}
Quotes == {"'", "\""}
\* every character the model knows
Chars == Whitespace \cup KeyChars \cup Quotes \cup {"=", "#", "\\", NL}

\* The end of the longest run of characters of class that starts at s[i]:
\* the index of the first character behind it.
Run(s, i, class) ==
    CHOOSE j \in i..(Len(s) + 1) :
        /\ \A k \in i..(j - 1) : s[k] \in class
        /\ j = Len(s) + 1 \/ s[j] \notin class

\* content.split("\n")
RECURSIVE split(_)
split(s) ==
    LET j == Run(s, 1, Chars \ {NL})
    IN  IF j > Len(s) THEN <<s>>
        ELSE <<SubSeq(s, 1, j - 1)>> \o split(SubSeq(s, j + 1, Len(s)))

\* Mutant of match: the key may be empty.
matchEmptyKey(line) ==
    LET k0 == Run(line, 1, Whitespace)
        k1 == Run(line, k0, KeyChars)
        e  == Run(line, k1, Whitespace)
        v0 == Run(line, e + 1, Whitespace)
        v1 == Run(line, v0, Chars \ LineTerminators)
    IN  IF e <= Len(line) /\ line[e] = "="
           /\ Run(line, v1, Whitespace) = Len(line) + 1
        THEN [matched |-> TRUE, key |-> SubSeq(line, k0, k1 - 1),
              value |-> SubSeq(line, v0, v1 - 1)]
        ELSE [matched |-> FALSE, key |-> <<>>, value |-> <<>>]

\* line.match(/^\s*([\w\.\-]+)\s*=\s*(.*)?\s*$/): r !== null, r[1] and r[2] || "".
\* Every quantifier is greedy, and giving characters back never turns a
\* failure into a match, so the groups are the longest runs.
match(line) ==
    LET k0 == Run(line, 1, Whitespace)
        k1 == Run(line, k0, KeyChars)
        e  == Run(line, k1, Whitespace)
        v0 == Run(line, e + 1, Whitespace)
        v1 == Run(line, v0, Chars \ LineTerminators)
    IN  IF k1 > k0 /\ e <= Len(line) /\ line[e] = "="
           /\ Run(line, v1, Whitespace) = Len(line) + 1
        THEN [matched |-> TRUE, key |-> SubSeq(line, k0, k1 - 1),
              value |-> SubSeq(line, v0, v1 - 1)]
        ELSE [matched |-> FALSE, key |-> <<>>, value |-> <<>>]

\* Mutant of comments: only a line with a # counts, a blank line does not.
commentsOnlyHash(line) ==
    LET i == Run(line, 1, Whitespace)
    IN  i <= Len(line) /\ line[i] = "#"

\* new RegExp(/^\s*(#|$)/).test(line)
comments(line) ==
    LET i == Run(line, 1, Whitespace)
    IN  i = Len(line) + 1 \/ line[i] = "#"

\* value.replace(/\\n/gm, "\n")
RECURSIVE unescapeNewlines(_)
unescapeNewlines(value) ==
    IF Len(value) < 2 THEN value
    ELSE IF value[1] = "\\" /\ value[2] = "n"
    THEN <<NL>> \o unescapeNewlines(SubSeq(value, 3, Len(value)))
    ELSE <<value[1]>> \o unescapeNewlines(Tail(value))

\* Mutant of stripQuotes: the quotes go only as a matching pair.
stripQuotesMatchingPair(value) ==
    IF Len(value) > 1 /\ value[1] \in Quotes /\ value[Len(value)] = value[1]
    THEN SubSeq(value, 2, Len(value) - 1) ELSE value

\* value.replace(/(^['"]|['"]$)/g, ""): the second alternative is tried only
\* behind a quote the first one has consumed.
stripQuotes(value) ==
    LET a == IF Len(value) > 0 /\ value[1] \in Quotes THEN Tail(value) ELSE value
    IN  IF Len(a) > 0 /\ a[Len(a)] \in Quotes THEN SubSeq(a, 1, Len(a) - 1) ELSE a

\* Mutant of valueOf: an opening double quote is enough to unescape.
valueOfOpeningQuote(r2) ==
    stripQuotes(IF Len(r2) > 0 /\ r2[1] = "\""
                THEN unescapeNewlines(r2) ELSE r2)

\* lines 54-59: the value that is stored for the second group r2
valueOf(r2) ==
    stripQuotes(IF Len(r2) > 0 /\ r2[1] = "\"" /\ r2[Len(r2)] = "\""
                THEN unescapeNewlines(r2) ELSE r2)

\* Mutant of set: an entry is added whether or not the key is there.
setAlwaysAppends(env, key, value) == Append(env, [name |-> key, value |-> value])

\* Map.prototype.set: the value of a key that is there is replaced in place,
\* a new key goes behind the others.
set(env, key, value) ==
    IF \E i \in 1..Len(env) : env[i].name = key
    THEN [i \in 1..Len(env) |->
             IF env[i].name = key THEN [name |-> key, value |-> value] ELSE env[i]]
    ELSE Append(env, [name |-> key, value |-> value])

\* initialEnv.forEach((e) => { env.set(e.name, e.value); })
RECURSIVE forEachInitialEnv(_, _)
forEachInitialEnv(list, env) ==
    IF list = <<>> THEN env
    ELSE forEachInitialEnv(Tail(list), set(env, Head(list).name, Head(list).value))

\* the callback of content.split("\n").forEach for one line
parseLine(line, st) ==
    LET r == match(line)
    IN  IF r.matched
        THEN [st EXCEPT !.env = set(@, r.key, valueOf(r.value))]
        ELSE IF ~comments(line)
        THEN [st EXCEPT !.parseErrors = Append(@, line)]
        ELSE st

RECURSIVE forEachLine(_, _)
forEachLine(lines, st) ==
    IF lines = <<>> THEN st
    ELSE forEachLine(Tail(lines), parseLine(Head(lines), st))

\* localize("ignoring.lines.in.envfile", ..., "envFile", envFile), one token
WarningPrefix == <<"Ignoring non-parseable lines in envFile {1}: ">>

\* Mutant of separator: a comma follows the last entry too.
separatorNoPeriod(idx, length) == <<",", " ">>

\* (idx !== array.length - 1) ? ", " : "."   with idx counted from 0
separator(idx, length) == IF idx # length - 1 THEN <<",", " ">> ELSE <<".">>

\* parseErrors.forEach(function (value, idx, array) { warning += ... })
RECURSIVE forEachParseError(_, _, _)
forEachParseError(parseErrors, idx, warning) ==
    IF idx >= Len(parseErrors) THEN warning
    ELSE forEachParseError(parseErrors, idx + 1,
             warning \o <<"\"">> \o parseErrors[idx + 1] \o <<"\"">>
                     \o separator(idx, Len(parseErrors)))

\* lines 72-78
warningOf(parseErrors) ==
    IF Len(parseErrors) # 0
    THEN forEachParseError(parseErrors, 0, WarningPrefix)
    ELSE NullWarning

\* Mutant of arrayEnv: the keys are walked from the last one to the first.
arrayEnvBackwards(env) == [i \in 1..Len(env) |-> env[Len(env) + 1 - i]]

\* lines 80-84: for (let key of env.keys()) arrayEnv.push(...)
arrayEnv(env) == [i \in 1..Len(env) |-> [name |-> env[i].name, value |-> env[i].value]]

\* Mutant of stripBOM: every leading byte-order mark is dropped.
RECURSIVE stripBOMEvery(_)
stripBOMEvery(s) == IF Len(s) > 0 /\ s[1] = BOM THEN stripBOMEvery(Tail(s)) ELSE s

\* lines 33-35: a leading byte-order mark is dropped
stripBOM(s) == IF Len(s) > 0 /\ s[1] = BOM THEN Tail(s) ELSE s

\* CreateFromContent from line 37 on, for the lines of the content
CreateFromLines(lines, baseline) ==
    LET st == forEachLine(lines, [env |-> forEachInitialEnv(baseline, <<>>),
                                  parseErrors |-> <<>>])
    IN  [returned |-> TRUE, Env |-> arrayEnv(st.env),
         Warning |-> warningOf(st.parseErrors), thrown |-> "none"]

CreateFromContent(text, baseline) == CreateFromLines(split(stripBOM(text)), baseline)

\* Mutant of CreateFromFile: a file that cannot be read counts as an empty one.
CreateFromFileSwallows(readable, text, baseline) ==
    CreateFromContent(IF readable THEN text ELSE <<>>, baseline)

\* CreateFromFile: fs.readFileSync(envFile, "utf8") returns the text of the
\* file or throws, and nothing catches what it throws.
CreateFromFile(readable, text, baseline) ==
    IF ~readable THEN [NotParsed EXCEPT !.thrown = "readFileSync"]
    ELSE CreateFromContent(text, baseline)

\* The inputs the parser is run on.
EnvChars == {"A", "B", "=", " ", "#", NL}
Contents == UNION {[1..n -> EnvChars] : n \in 0..MaxLen}
EnvA(v) == [name |-> <<"A">>, value |-> v]
EnvB(v) == [name |-> <<"B">>, value |-> v]
\* no baseline (undefined or empty), one that repeats a name at once, one that
\* does not, one that repeats a name behind another
Baselines ==
    { <<>>,
      <<EnvA(<<"1">>), EnvA(<<"2">>)>>,
      <<EnvB(<<"1">>), EnvA(<<"2">>)>>,
      <<EnvA(<<"1">>), EnvB(<<"2">>), EnvA(<<"3">>)>> }

\* The update logic has not started and takes no step.
UpdateLogicIdle ==
    /\ updateChannel = "Default"
    /\ realActivationOccurred = FALSE
    /\ insiderUpdateTimer = NoTimer
    /\ liveTimers = {}
    /\ timerArg = [t \in Cycles |-> "none"]
    /\ nTimers = 0
    /\ buildInfoCache = Null
    /\ suggestInsiders = TRUE
    /\ suggest = NoSuggestion
    /\ channelUpdatePending = FALSE
    /\ proxyGlobal = Undefined
    /\ proxyWorkspace = Undefined
    /\ installPath = "command"
    /\ nCycles = 0
    /\ cycles = [c \in Cycles |-> NoCycle]
    /\ session = 1
    /\ HostInit

InitParser ==
    /\ content \in Contents
    /\ initialEnv \in Baselines
    /\ parsed = NotParsed
    /\ envFile = "none"
    /\ UpdateLogicIdle

\* A caller runs ParsedEnvironmentFile.CreateFromContent(content, envFile, initialEnv).
CreateFromContentCall ==
    /\ envFile = "none"
    /\ ~parsed.returned
    /\ parsed' = CreateFromContent(content, initialEnv)
    /\ UNCHANGED <<content, initialEnv, envFile, updateVars, hostVars>>

NextParser == CreateFromContentCall

SpecParser == InitParser /\ [][NextParser]_vars

----------------------------------------------------------------------------
\* The parser on texts with byte-order marks, quotes and escapes, called with
\* the text or, through CreateFromFile, with a file.

\* A caller runs ParsedEnvironmentFile.CreateFromFile(envFile, initialEnv); the
\* text of a file that can be read is content.
CreateFromFileCall ==
    /\ envFile # "none"
    /\ ~parsed.returned /\ parsed.thrown = "none"
    /\ parsed' = CreateFromFile(envFile = "readable", content, initialEnv)
    /\ UNCHANGED <<content, initialEnv, envFile, updateVars, hostVars>>

TextChars == {"\"", "'", "\\", "n", "=", " ", NL}
Texts == UNION {[1..n -> TextChars] : n \in 0..MaxTextLen}
\* what a text starts with: an assignment to A, one mark, two marks
Heads == {<<"A", "=">>, <<BOM>>, <<BOM, BOM>>}
FileContents == {head \o text : head \in Heads, text \in Texts}
FileBaselines == {<<>>, <<EnvA(<<"n">>), [name |-> <<"n">>, value |-> <<"A">>]>>}

InitEnvFile ==
    /\ envFile \in {"none", "readable", "missing"}
    /\ content \in IF envFile = "missing" THEN {<<>>} ELSE FileContents
    /\ initialEnv \in FileBaselines
    /\ parsed = NotParsed
    /\ UpdateLogicIdle

NextEnvFile == CreateFromContentCall \/ CreateFromFileCall

SpecEnvFile == InitEnvFile /\ [][NextEnvFile]_vars

----------------------------------------------------------------------------
\* Properties.

Finished(c) == cycles[c].pc \in {"done", "failed", "noupdate"}

\* In this step the promise returned by checkAndApplyUpdate for cycle c settles.
Settles(c) == InFlight(c) /\ ~(cycles'[c].pc \in {"feed", "tmp", "download", "install"})

\* C1: at most one update cycle is in flight at any time.
C1_AtMostOneCycleInFlight ==
    Cardinality({c \in Cycles : InFlight(c)}) <= 1

\* C2: a cycle attempts the download at most twice; the second attempt follows
\* one switch of http.proxySupport to "off", made only when the original value
\* was not "off"; a cycle that failed in the download loop never called installVsix.
C2_AtMostTwoDownloads ==
    \A c \in Cycles :
        /\ cycles[c].attempts <= 2
        /\ cycles[c].attempts = 2 =>
              cycles[c].offWrites = 1 /\ cycles[c].originalProxySupport # "off"
        /\ cycles[c].pc = "failed" /\ cycles[c].proxyAtInstall = "none" =>
              cycles[c].install = "none"

\* C2 holds of the cycles that ran alone.
C2_AloneAtMostTwoDownloads ==
    \A c \in Cycles :
        Alone(c) =>
            /\ cycles[c].attempts <= 2
            /\ cycles[c].attempts = 2 =>
                  cycles[c].offWrites = 1 /\ cycles[c].originalProxySupport # "off"

C5_PendingInstallHasTimeout ==
    \A c \in Cycles :
        cycles[c].install = "pending" /\ (installPath = "command" \/ cycles[c].process # "none")
            => cycles[c].timer = "armed"

\* C5 holds of the two branches that spawn the script.
C5_SpawnedInstallHasTimeout ==
    \A c \in Cycles :
        cycles[c].install = "pending" /\ cycles[c].process # "none"
            => cycles[c].timer = "armed"

\* C6: on the exit-code branch installVsix is resolved exactly when the first
\* event was an exit with status 0, and rejected when the first event was a
\* non-zero exit, a launch failure or the timeout; later events change nothing.
C6_ExitCodeDecides ==
    \A c \in Cycles :
        installPath = "exitcode" =>
            /\ cycles[c].install = "resolved" <=> cycles[c].firstEvent = "exit0"
            /\ cycles[c].install = "rejected" <=>
                  cycles[c].firstEvent \in {"exitnz", "launchfail", "timeout", "noscript"}

C6_Witness ==
    \E c \in Cycles :
        /\ installPath = "exitcode"
        /\ cycles[c].firstEvent = "timeout" /\ cycles[c].process = "exited"
        /\ cycles[c].install = "rejected"

\* C7 as claimed: on the standard-stream branch, once the process has written
\* output, one token was sent, the timeout is cancelled and installVsix is resolved.
C7_FirstOutputResolves ==
    \A c \in Cycles :
        installPath = "stdio" /\ cycles[c].dataEvents >= 1 =>
            /\ cycles[c].tokens = 1
            /\ cycles[c].timer = "cleared"
            /\ cycles[c].install = "resolved"

\* C7 as amended: once the process has written output exactly one token was
\* sent, however many output events followed; when the timeout had not fired
\* before the first output it is cancelled and installVsix is resolved while
\* the process may still run, and when it had fired installVsix stays rejected.
C7_FirstOutputBeforeTimeoutResolves ==
    \A c \in Cycles :
        installPath = "stdio" /\ cycles[c].dataEvents >= 1 =>
            /\ cycles[c].tokens = 1
            /\ \/ cycles[c].timer = "cleared" /\ cycles[c].install = "resolved"
                    /\ cycles[c].firstEvent = "data"
               \/ cycles[c].timer = "fired" /\ cycles[c].install = "rejected"
                    /\ cycles[c].firstEvent = "timeout"

C7_Witness ==
    \E c \in Cycles :
        /\ installPath = "stdio"
        /\ cycles[c].dataEvents = 2 /\ cycles[c].tokens = 1
        /\ cycles[c].install = "resolved" /\ cycles[c].process = "running"

\* C8: the reload prompt is shown only after installVsix succeeded, and every
\* finished cycle has shown it exactly when its installVsix succeeded.
C8_PromptIffInstalled ==
    \A c \in Cycles :
        /\ cycles[c].prompt => cycles[c].install = "resolved"
        /\ Finished(c) => (cycles[c].prompt <=> cycles[c].install = "resolved")

C8_Witness ==
    \E c, d \in Cycles :
        /\ cycles[c].pc = "done" /\ cycles[c].prompt
        /\ cycles[d].pc = "failed" /\ cycles[d].install = "rejected" /\ ~cycles[d].prompt

C10_EntryPointsNeverReject ==
    /\ suggest.result # "rejected"
    /\ \A c \in Cycles :
          cycles[c].result # "rejected" /\ cycles[c].applyResult # "rejected"

C10_Witness ==
    \E c, d \in Cycles :
        /\ cycles[c].pc = "failed" /\ cycles[c].install = "rejected"
        /\ cycles[c].applyResult = "resolved" /\ cycles[c].result = "resolved"
        /\ cycles[d].pc = "failed" /\ cycles[d].attempts >= 1 /\ cycles[d].install = "none"
        /\ cycles[d].result = "resolved"

\* C11: realActivation creates the polling timer and starts a check exactly
\* when the channel is Insiders; after activation a change of the channel to
\* Insiders creates a timer and a change to Default clears it; so whenever a
\* polling timer is active the configured channel is Insiders.
C11_TimerOnlyOnInsiders ==
    /\ [](liveTimers # {} => updateChannel = "Insiders")
    /\ [][/\ realActivationOccurred' /\ ~realActivationOccurred =>
                IF updateChannel = "Insiders"
                THEN /\ liveTimers' = {insiderUpdateTimer'} /\ nTimers' = nTimers + 1
                     /\ nCycles' = nCycles + 1 /\ cycles'[nCycles'].from = "startup"
                ELSE liveTimers' = {} /\ nTimers' = nTimers /\ nCycles' = nCycles
          /\ realActivationOccurred /\ updateChannel' # updateChannel =>
                IF updateChannel' = "Insiders"
                THEN liveTimers' = {insiderUpdateTimer'} /\ nTimers' = nTimers + 1
                ELSE liveTimers' = {}]_vars

C11_Witness ==
    /\ updateChannel = "Default" /\ liveTimers = {} /\ nTimers = 1
    /\ nCycles = 2 /\ cycles[1].pc # "done"
    /\ cycles[1].from = "settings" /\ cycles[1].updateChannel = "Insiders"
    /\ cycles[2].from = "settings" /\ cycles[2].updateChannel = "Default"

\* C12: a step that starts checkAndApplyUpdate leaves buildInfoCache null; the
\* new cycle uses the cached descriptor without a feed request when there was
\* one and makes one feed request otherwise; no cycle ever makes a second feed
\* request; and the cache becomes non-null only in the step in which the user
\* answers Yes to the suggestion.
C12_CacheUsedOnceAndCleared ==
    /\ [](\A c \in Cycles :
             /\ cycles[c].feedRequests <= 1
             /\ cycles[c].pc # "none" /\ cycles[c].feedRequests = 0 =>
                   cycles[c].buildInfo = "Insiders")
    /\ [](buildInfoCache # Null => suggest.pc = "returned")
    /\ [][/\ nCycles' # nCycles =>
                /\ buildInfoCache' = Null
                /\ IF buildInfoCache # Null
                   THEN /\ cycles'[nCycles'].buildInfo = buildInfoCache
                        /\ cycles'[nCycles'].feedRequests = 0
                        /\ cycles'[nCycles'].pc = "tmp"
                   ELSE /\ cycles'[nCycles'].feedRequests = 1
                        /\ cycles'[nCycles'].pc = "feed"
          /\ buildInfoCache' # Null /\ buildInfoCache = Null =>
                suggest.pc = "prompt" /\ suggest'.pc = "returned" /\ channelUpdatePending'
          /\ buildInfoCache # Null /\ buildInfoCache' # buildInfoCache =>
                nCycles' # nCycles]_vars

C12_Witness ==
    /\ buildInfoCache = Null /\ suggest.pc = "returned"
    /\ cycles[1].feedRequests = 0 /\ cycles[1].buildInfo = "Insiders"
    /\ cycles[1].from = "settings" /\ cycles[1].pc = "download"
    /\ cycles[2].feedRequests = 1 /\ cycles[2].pc = "feed"

\* C13: in every session the suggestion prompt is shown at most once, and only
\* while "CPP.suggestInsiders" is true; the answer Don't Show Again makes the
\* flag false, a false flag stays false through every later step and session,
\* and no step taken with a false flag shows the prompt.
C13_PromptOncePerSessionUntilSilenced ==
    /\ [](suggest.prompts <= 1)
    /\ [](suggest.pc \in {"feed", "prompt"} => suggestInsiders)
    /\ [][/\ suggest'.prompts > suggest.prompts => suggestInsiders
          /\ suggest'.selection = "Don't Show Again" => ~suggestInsiders'
          /\ ~suggestInsiders =>
                ~suggestInsiders' /\ suggest'.prompts <= suggest.prompts]_vars

C13_Witness ==
    /\ session = 2 /\ ~suggestInsiders
    /\ realActivationOccurred /\ updateChannel = "Default"
    /\ suggest.pc = "returned" /\ suggest.prompts = 0

C15_TmpFileReleased ==
    \A c \in Cycles :
        Finished(c) /\ cycles[c].vsixFile # "none" => cycles[c].vsixFile = "released"

----------------------------------------------------------------------------
\* Properties of CreateFromContent.  The lines and the grammar are restated
\* here from the text alone, without the operators of the parser.

\* the text CreateFromContent parses
Text == stripBOM(content)

\* 0, the positions of the newlines of s, and Len(s) + 1, in increasing order
Break(s, n) ==
    LET B == {0, Len(s) + 1} \cup {i \in 1..Len(s) : s[i] = NL}
    IN  CHOOSE b \in B : Cardinality({x \in B : x < b}) = n

\* the lines of s: what lies between two neighbouring newlines
LinesOf(s) ==
    [n \in 1..(Cardinality({i \in 1..Len(s) : s[i] = NL}) + 1) |->
        SubSeq(s, Break(s, n - 1) + 1, Break(s, n) - 1)]

\* empty or white space only
IsBlank(line) == \A x \in 1..Len(line) : line[x] \in Whitespace

\* the first character that is not white space is #
IsComment(line) ==
    \E i \in 1..Len(line) :
        line[i] = "#" /\ \A x \in 1..(i - 1) : line[x] \in Whitespace

\* line is  <white space>* <key> <white space>* = ...  with the key at i..j
\* and the = at k
KeyShape(line, i, j, k) ==
    /\ i <= j /\ j < k
    /\ \A x \in 1..(i - 1) : line[x] \in Whitespace
    /\ \A x \in i..j : line[x] \in KeyChars
    /\ \A x \in (j + 1)..(k - 1) : line[x] \in Whitespace
    /\ line[k] = "="

\* line is  ... = <white space>* <value>? <white space>*  with the = at k and
\* the value, which is empty when p = q + 1, at p..q
ValueShape(line, k, p, q) ==
    /\ k < p /\ p <= q + 1
    /\ \A x \in (k + 1)..(p - 1) : line[x] \in Whitespace
    /\ \A x \in p..q : line[x] \notin LineTerminators
    /\ \A x \in (q + 1)..Len(line) : line[x] \in Whitespace

MatchesGrammar(line) ==
    \E k \in 1..Len(line) :
        /\ \E i, j \in 1..Len(line) : KeyShape(line, i, j, k)
        /\ \E p \in 1..(Len(line) + 1), q \in 0..Len(line) : ValueShape(line, k, p, q)

Unparseable(line) == ~IsBlank(line) /\ ~IsComment(line) /\ ~MatchesGrammar(line)

\* the assignment a line of the file makes
AssignmentOf(line) ==
    LET r == match(line) IN [name |-> r.key, value |-> valueOf(r.value)]

\* every assignment in the order in which it is applied: the baseline, then the file
Assignments ==
    LET lines == SelectSeq(LinesOf(Text), MatchesGrammar)
    IN  initialEnv \o [n \in 1..Len(lines) |-> AssignmentOf(lines[n])]

FirstAssignment(list, name) ==
    CHOOSE k \in 1..Len(list) :
        /\ list[k].name = name
        /\ \A m \in 1..(k - 1) : list[m].name # name

LastAssignment(list, name) ==
    CHOOSE k \in 1..Len(list) :
        /\ list[k].name = name
        /\ \A m \in (k + 1)..Len(list) : list[m].name # name

\* C16: Env holds each name once, the names are those that were assigned, and
\* the value of a name is that of its last assignment, the baseline entries
\* counting as assigned before the lines of the file.
C16_UniqueNamesLastValue ==
    parsed.returned =>
        LET list == Assignments IN
        /\ \A i, j \in 1..Len(parsed.Env) :
              parsed.Env[i].name = parsed.Env[j].name => i = j
        /\ {parsed.Env[i].name : i \in 1..Len(parsed.Env)}
              = {list[k].name : k \in 1..Len(list)}
        /\ \A i \in 1..Len(parsed.Env) :
              parsed.Env[i].value = list[LastAssignment(list, parsed.Env[i].name)].value

C16_Witness ==
    /\ parsed.returned
    /\ initialEnv = <<EnvA(<<"1">>), EnvA(<<"2">>)>>
    /\ content = <<"A", "=", "B">>
    /\ parsed.Env = <<EnvA(<<"B">>)>>

\* C17: Env is ordered by the first assignment of each name, the baseline
\* entries counting before the lines of the file.
C17_OrderOfFirstOccurrence ==
    parsed.returned =>
        LET list == Assignments IN
        \A i, j \in 1..Len(parsed.Env) :
            i < j => FirstAssignment(list, parsed.Env[i].name)
                        < FirstAssignment(list, parsed.Env[j].name)

C17_Witness ==
    /\ parsed.returned
    /\ initialEnv = <<EnvA(<<"1">>), EnvA(<<"2">>)>>
    /\ content = <<"B", "=", NL, "A", "=">>
    /\ parsed.Env = <<EnvA(<<>>), EnvB(<<>>)>>

\* C18: Warning is null exactly when every line that is neither blank nor a
\* comment matches the key=value grammar; otherwise it is one string, which
\* starts with the one message of the parser.
C18_WarningNullIffAllParse ==
    parsed.returned =>
        LET lines == LinesOf(Text) IN
        /\ parsed.Warning = NullWarning <=>
              \A n \in 1..Len(lines) : ~Unparseable(lines[n])
        /\ parsed.Warning # NullWarning =>
              /\ SubSeq(parsed.Warning, 1, 1) = WarningPrefix
              /\ \A x \in 2..Len(parsed.Warning) :
                    parsed.Warning[x] \notin {WarningPrefix[1], Null}

C18_Witness ==
    /\ parsed.returned
    /\ content = <<" ", "=", "A", NL, "#">>
    /\ parsed.Warning # NullWarning

\* the entries of the warning for a list of lines that is not empty
RECURSIVE QuotedList(_)
QuotedList(lines) ==
    IF Len(lines) = 1 THEN <<"\"">> \o lines[1] \o <<"\"", ".">>
    ELSE <<"\"">> \o lines[1] \o <<"\"", ",", " ">> \o QuotedList(Tail(lines))

\* C19: a Warning that is not null lists, behind its message, every
\* unparseable line once per occurrence, verbatim and in file order, each in
\* double quotes, with ", " between two of them and a period behind the last.
C19_WarningListsEveryBadLine ==
    parsed.returned /\ parsed.Warning # NullWarning =>
        LET bad == SelectSeq(LinesOf(Text), Unparseable)
        IN  /\ bad # <<>>
            /\ parsed.Warning = WarningPrefix \o QuotedList(bad)

C19_Witness ==
    /\ parsed.returned
    /\ content = <<"A", NL, "A", NL, "=">>
    /\ parsed.Warning = WarningPrefix \o
          <<"\"", "A", "\"", ",", " ", "\"", "A", "\"", ",", " ", "\"", "=", "\"", ".">>

Kept(line) == ~IsBlank(line) /\ ~IsComment(line)

\* C20: blank lines and comment lines add nothing: the result is the one the
\* other lines give alone; and with no baseline a content of blank and comment
\* lines only gives an empty Env and a null Warning.
C20_BlankAndCommentLinesIgnored ==
    parsed.returned =>
        /\ parsed = CreateFromLines(SelectSeq(LinesOf(Text), Kept), initialEnv)
        /\ initialEnv = <<>> /\ SelectSeq(LinesOf(Text), Kept) = <<>> =>
              parsed.Env = <<>> /\ parsed.Warning = NullWarning

C20_Witness ==
    /\ parsed.returned
    /\ initialEnv = <<>>
    /\ content = <<" ", "#", "A", "=", NL>>
    /\ parsed.Env = <<>> /\ parsed.Warning = NullWarning

\* C21 as claimed: a text that starts with a byte-order mark gives the result
\* its rest gives, whatever the rest is.
C21_MarkedParsesAsUnmarked ==
    parsed.returned /\ Len(content) > 0 /\ content[1] = BOM =>
        parsed = CreateFromContent(Tail(content), initialEnv)

\* C21 as amended: of a text that starts with a byte-order mark exactly the
\* first character is removed and the rest is parsed as it is; the result is
\* the one the rest gives when the rest does not start with a mark itself,
\* and has the same Env in any case.
C21_OneMarkRemoved ==
    parsed.returned /\ Len(content) > 0 /\ content[1] = BOM =>
        /\ parsed = CreateFromLines(LinesOf(Tail(content)), initialEnv)
        /\ parsed.Env = CreateFromContent(Tail(content), initialEnv).Env
        /\ Len(content) < 2 \/ content[2] # BOM =>
              parsed = CreateFromContent(Tail(content), initialEnv)

C21_Witness ==
    /\ parsed.returned /\ initialEnv = <<>>
    /\ content = <<BOM, "n", "=", NL, "'">>
    /\ parsed.Env = <<[name |-> <<"n">>, value |-> <<>>]>>
    /\ parsed.Warning = WarningPrefix \o <<"\"", "'", "\"", ".">>

\* the second group of line 50 for a line that matches the grammar: what
\* follows the white space behind the =, up to the last character that is
\* followed by white space only
Captured(line) ==
    LET k == CHOOSE k \in 1..Len(line) :
                 \E i, j \in 1..Len(line) : KeyShape(line, i, j, k)
        p == CHOOSE p \in (k + 1)..(Len(line) + 1) :
                 /\ \A x \in (k + 1)..(p - 1) : line[x] \in Whitespace
                 /\ p = Len(line) + 1 \/ line[p] \notin Whitespace
        q == CHOOSE q \in (p - 1)..Len(line) :
                 /\ ValueShape(line, k, p, q)
                 /\ \A r \in (q + 1)..Len(line) : ~ValueShape(line, k, p, r)
    IN  SubSeq(line, p, q)

\* no later line of lines assigns the name that line n assigns
IsLastFor(lines, n) ==
    \A m \in (n + 1)..Len(lines) : match(lines[m]).key # match(lines[n]).key

\* the value Env gives for name
Emitted(name) ==
    parsed.Env[CHOOSE x \in 1..Len(parsed.Env) : parsed.Env[x].name = name].value

\* value[0] === '"' && value[value.length - 1] === '"'
DoubleQuoted(v) == Len(v) > 0 /\ v[1] = "\"" /\ v[Len(v)] = "\""

\* the number of two-character sequences backslash n in s
Pairs(s) == Cardinality({i \in 1..(Len(s) - 1) : s[i] = "\\" /\ s[i + 1] = "n"})

\* the number of newline characters in s
Newlines(s) == Cardinality({i \in 1..Len(s) : s[i] = NL})

\* C22: the backslash-n sequences of a captured value become newlines exactly
\* when the captured value starts and ends with a double quote: then the
\* emitted value has one newline for each sequence and no sequence left;
\* otherwise it has every sequence and no newline.
C22_UnescapedIffDoubleQuoted ==
    parsed.returned =>
        LET lines == SelectSeq(LinesOf(Text), MatchesGrammar)
        IN  \A n \in 1..Len(lines) :
                IsLastFor(lines, n) =>
                    LET v == Captured(lines[n])
                        e == Emitted(match(lines[n]).key)
                    IN  IF DoubleQuoted(v)
                        THEN Pairs(e) = 0 /\ Newlines(e) = Pairs(v)
                        ELSE Pairs(e) = Pairs(v) /\ Newlines(e) = 0

C22_Witness ==
    /\ parsed.returned /\ initialEnv = <<>>
    /\ content = <<"A", "=", "\"", "\\", "n", "\"">>
    /\ parsed.Env = <<[name |-> <<"A">>, value |-> <<NL>>]>>

\* the characters of v without a quote at its very start and without a quote
\* at its very end
WithoutEndQuotes(v) ==
    SubSeq(v, IF Len(v) > 0 /\ v[1] \in Quotes THEN 2 ELSE 1,
              IF Len(v) > 0 /\ v[Len(v)] \in Quotes THEN Len(v) - 1 ELSE Len(v))

\* C23: the emitted value is the captured value, unescaped when it is double
\* quoted, without a quote at its start and without a quote at its end,
\* whether or not the two are the same; everything between is kept, and an
\* absent value gives the empty string.
C23_OneQuoteOffEachEnd ==
    parsed.returned =>
        LET lines == SelectSeq(LinesOf(Text), MatchesGrammar)
        IN  \A n \in 1..Len(lines) :
                IsLastFor(lines, n) =>
                    LET v == Captured(lines[n])
                        e == Emitted(match(lines[n]).key)
                    IN  /\ e = WithoutEndQuotes(IF DoubleQuoted(v)
                                                THEN unescapeNewlines(v) ELSE v)
                        /\ Pairs(v) = 0 => e = WithoutEndQuotes(v)
                        /\ v = <<>> => e = <<>>

C23_Witness ==
    /\ parsed.returned /\ initialEnv = <<>>
    /\ content = <<"A", "=", "'", "\"", "'", "\"">>
    /\ parsed.Env = <<[name |-> <<"A">>, value |-> <<"\"", "'">>]>>

\* the entries of env as lines NAME=VALUE joined by newlines
RECURSIVE Format(_)
Format(env) ==
    IF env = <<>> THEN <<>>
    ELSE env[1].name \o <<"=">> \o env[1].value
         \o (IF Len(env) > 1 THEN <<NL>> \o Format(Tail(env)) ELSE <<>>)

\* C24 as claimed: the Env list of a content string, formatted as lines
\* NAME=VALUE and parsed again without a baseline, comes back as the same
\* list with a null Warning.
C24_FormatParseRoundTrip ==
    parsed.returned /\ initialEnv = <<>> =>
        LET again == CreateFromContent(Format(parsed.Env), <<>>)
        IN  again.Env = parsed.Env /\ again.Warning = NullWarning

Parseable(line) == ~Unparseable(line)

\* C25: a call of CreateFromContent returns, whatever the content, with the
\* entries the content gives without its malformed lines; a call of
\* CreateFromFile throws exactly when the file cannot be read, then with the
\* read error and without a result, and returns what CreateFromContent returns
\* for the text of the file otherwise.
C25_OnlyTheReadFails ==
    /\ [](/\ parsed.thrown # "none" =>
                /\ envFile = "missing"
                /\ parsed = [NotParsed EXCEPT !.thrown = "readFileSync"]
          /\ parsed.returned =>
                /\ envFile # "missing" /\ parsed.thrown = "none"
                /\ parsed = CreateFromContent(content, initialEnv)
                /\ parsed.Env =
                       CreateFromLines(SelectSeq(LinesOf(Text), Parseable), initialEnv).Env)
    /\ [][/\ parsed'.returned \/ parsed'.thrown = "readFileSync"
          /\ parsed'.returned <=> envFile # "missing"]_vars

C25_Witness ==
    /\ envFile = "readable" /\ initialEnv = <<>>
    /\ content = <<"A", "=", "n", NL, "=">>
    /\ parsed.returned /\ parsed.thrown = "none"
    /\ parsed.Env = <<[name |-> <<"A">>, value |-> <<"n">>]>>
    /\ parsed.Warning = WarningPrefix \o <<"\"", "=", "\"", ".">>

\* C26 as claimed: a call of checkAndApplyUpdate that was made has its promise
\* settled in the end, given that everything it waits for answers.
C26_EveryCycleSettles ==
    \A c \in Cycles : (cycles[c].pc # "none") ~> Finished(c)

\* C27 as claimed: when every call of checkAndApplyUpdate made so far has
\* finished, the global http.proxySupport is what it was when the first call
\* was made.
C27_ProxyRestoredAfterAllCycles ==
    nCycles > 0 /\ (\A c \in 1..nCycles : Finished(c)) =>
        proxyGlobal = cycles[1].proxyAtCall

\* C28 as claimed: the descriptor a call of checkAndApplyUpdate downloads and
\* installs was obtained from the feed for the channel the call was made for.
C28_DescriptorOfOwnChannel ==
    \A c \in Cycles :
        cycles[c].buildInfo # Null => cycles[c].buildInfo = cycles[c].updateChannel

\* C29 as claimed: a call of checkAndApplyUpdate made by the polling timer is
\* made for the Insiders channel.
C29_TimerChecksInsiders ==
    \A c \in Cycles :
        cycles[c].from = "timer" => cycles[c].updateChannel = "Insiders"

SuggestFrame ==
    <<suggestInsiders, buildInfoCache, updateChannel, channelUpdatePending,
      insiderUpdateTimer, liveTimers, timerArg, nTimers>>

\* C31: the persisted flag changes only when the prompt is answered with
\* "Don't Show Again", and then to false; the step of suggestInsidersChannel
\* that ends it after a feed failure or a reply without a build, and the one
\* that ends it with "Ask Me Later" or a dismissal, leave the flag, the cache,
\* the channel setting and the timers as they are; "Don't Show Again" leaves
\* all but the flag.
C31_OnlyDontShowAgainWrites ==
    [][/\ suggestInsiders' # suggestInsiders =>
             /\ suggest.pc = "prompt" /\ suggest'.selection = "Don't Show Again"
             /\ suggestInsiders' = FALSE
       /\ suggest.pc = "feed" /\ suggest'.pc = "returned" =>
             UNCHANGED SuggestFrame
       /\ suggest.pc = "prompt" /\ suggest'.pc = "returned"
          /\ suggest'.selection \in {"Ask Me Later", Undefined} =>
             UNCHANGED SuggestFrame
       /\ suggest.pc = "prompt" /\ suggest'.pc = "returned"
          /\ suggest'.selection = "Don't Show Again" =>
             /\ suggestInsiders' = FALSE
             /\ UNCHANGED <<buildInfoCache, updateChannel, channelUpdatePending,
                            insiderUpdateTimer, liveTimers, timerArg, nTimers>>]_vars

C31_Witness ==
    /\ suggest.pc = "returned" /\ suggest.selection = "Don't Show Again"
    /\ suggestInsiders = FALSE
    /\ buildInfoCache = Null /\ ~channelUpdatePending
    /\ updateChannel = "Default" /\ liveTimers = {} /\ nTimers = 0

\* C32: a call of checkAndApplyUpdate that got no descriptor (the feed failed
\* or had no newer build) has returned normally, without tmp.file, download, install or
\* reload prompt and without a write to http.proxySupport; the step in which
\* the feed gives it no descriptor leaves http.proxySupport and the timers as
\* they are.
C32_NoDescriptorNoEffect ==
    /\ [](\A c \in Cycles :
              LET r == cycles[c] IN
              r.pc \notin {"none", "feed"} /\ r.buildInfo = Null =>
                  /\ r.pc = "noupdate" /\ r.feedRequests = 1
                  /\ r.result = "resolved"
                  /\ r.attempts = 0 /\ r.offWrites = 0 /\ r.vsixFile = "none"
                  /\ r.originalProxySupport = "none"
                  /\ r.install = "none" /\ r.process = "none" /\ r.timer = "none"
                  /\ ~r.prompt /\ r.applyResult = "none")
    /\ [][\A c \in Cycles :
              cycles[c].pc = "feed" /\ cycles'[c].pc = "noupdate" =>
                  UNCHANGED <<proxyGlobal, proxyWorkspace, insiderUpdateTimer,
                              liveTimers, timerArg, nTimers>>]_vars

C32_Witness ==
    /\ nCycles = 1 /\ cycles[1].from = "startup"
    /\ cycles[1].pc = "noupdate" /\ cycles[1].buildInfo = Null
    /\ cycles[1].attempts = 0 /\ ~cycles[1].prompt
    /\ liveTimers = {1} /\ insiderUpdateTimer = 1
    /\ proxyGlobal = cycles[1].proxyAtCall

C34_InstallClearsTimer ==
    [][/\ \A c \in Cycles :
              cycles[c].pc = "install" /\ cycles'[c].pc = "done" =>
                  /\ liveTimers' = {}
                  /\ UNCHANGED <<insiderUpdateTimer, nTimers, updateChannel>>
       /\ realActivationOccurred /\ liveTimers' # liveTimers /\ liveTimers' # {} =>
              /\ updateChannel # "Insiders" /\ updateChannel' = "Insiders"
              /\ insiderUpdateTimer' # insiderUpdateTimer
              /\ liveTimers' = {insiderUpdateTimer'}
       /\ nCycles' = nCycles + 1 /\ cycles'[nCycles'].from = "timer" =>
              liveTimers # {}]_vars

C34_Witness ==
    /\ updateChannel = "Insiders" /\ nTimers = 1 /\ insiderUpdateTimer = 1
    /\ liveTimers = {}
    /\ nCycles = 1 /\ cycles[1].from = "startup" /\ cycles[1].pc = "done"
    /\ cycles[1].prompt

\* What the program holds, the record of the calls left aside.
programVars ==
    <<taskVars, updateChannel, realActivationOccurred, insiderUpdateTimer, liveTimers,
      timerArg, nTimers, buildInfoCache, suggestInsiders, suggest,
      channelUpdatePending, proxyGlobal, proxyWorkspace, installPath, nCycles,
      cycles, session, parserVars, activatedPreviously, tempCommands,
      intervalTimer, taskProvider, activations>>

\* onActivationEvent has run to its end in this session: only its last line
\* writes true to the flag that activate has made.
eventReturned == activatedPreviously.made /\ activatedPreviously.Value

\* In a session realActivation completes at most once, and the flag
\* realActivationOccurred says whether it has; so the 2.5 s interval timer and
\* the polling timer of startup are created at most once.  Once it has
\* completed, a call of activate changes nothing.
completesAtMostOnce ==
    /\ [](/\ activations <= 1
          /\ realActivationOccurred <=> activations = 1
          /\ intervalTimer # "none" <=> activations = 1
          /\ nTimers <= activations)
    /\ [][/\ activations' # activations =>
                ~realActivationOccurred \/ session' # session
          /\ (realActivationOccurred /\
                  \E a, d, f \in BOOLEAN : activate(a, d, f)) =>
                UNCHANGED programVars /\ lastCall'.result = "returned"]_vars

\* C35 as it is stated: realActivation completes at most once in a session,
\* and once it has completed a call of activate changes nothing and neither
\* does an onActivationEvent that is not the first of the session.
C35_Original ==
    /\ completesAtMostOnce
    /\ [][(realActivationOccurred /\ activationEvent /\
              \E d \in BOOLEAN : onActivationEvent(d)) =>
                UNCHANGED programVars /\ lastCall'.result = "returned"]_vars

\* C35: realActivation completes at most once in a session, and once it has
\* completed a call of activate changes nothing and neither does an
\* onActivationEvent that follows one which ran to its end.
C35_ActivatesAtMostOnce ==
    /\ completesAtMostOnce
    /\ [][(realActivationOccurred /\ eventReturned /\
              \E d \in BOOLEAN : onActivationEvent(d)) =>
                UNCHANGED programVars /\ lastCall'.result = "returned"]_vars

\* realActivation was made by getClients, and activate and two activation
\* events have come behind it.
C35_Witness ==
    /\ activations = 1 /\ realActivationOccurred
    /\ activateCalled /\ activationEvent
    /\ lastCall = Called("onActivationEvent", FALSE)
    /\ updateChannel = "Insiders" /\ nTimers = 1 /\ intervalTimer = "live"
    /\ tempCommands = 0 /\ taskProvider = "registered"
    /\ eventReturned

\* C36: activatedPreviously is true only when activate has run in the session
\* and an activation event has occurred in it; so a session in which activate
\* was called and no activation event occurred ends with the flag false, and
\* the session after it starts with the flag false.
C36_FlagRecordsActivationEvent ==
    /\ [](activateCalled /\ lastCall.name = "deactivate" /\ ~activationEvent =>
              ~activatedPreviously.Value)
    /\ [][session' # session /\ activateCalled /\ ~activationEvent =>
              ~activatedPreviously'.Value]_vars

\* C37: whenever deactivate has been called it has returned without raising
\* an error, be it in a session in which realActivation never ran, and neither
\* the 2.5 s interval timer nor a polling timer is live behind it.
C37_DeactivateNeverThrows ==
    lastCall.name = "deactivate" =>
        /\ lastCall.result = "returned"
        /\ intervalTimer # "live"
        /\ liveTimers = {}

\* C38: on a platform other than Windows, with the language service enabled
\* and the known compilers at hand, getBuildTasks returns for a C or C++
\* source file one task per known compiler that matches, in their order, and
\* behind them one for the user's compilerPath when it is set; it returns no
\* task for a header file, for an extension it does not know and when there
\* is no active editor.
C38_OneTaskPerCompilerPath ==
    LET env == environment
        \* a known compiler of the file's language whose base name is not the
        \* name of the user's compiler
        fits(info) ==
            /\ (fileIsCpp(env.fileExt) /\ ~info.isC) \/ (fileIsC(env.fileExt) /\ info.isC)
            /\ basename(info.path, env.isWindows) # env.user.compilerName
        matching == SelectSeq(env.known.list, fits)
        tasks == buildTasks.tasks
    IN  buildTasks.returned /\ ~env.isWindows /\ ~env.disabled /\ env.known.defined =>
            IF asksForClient(env)
            THEN /\ Len(tasks) = Len(matching) +
                                  (IF env.user.compilerPath # <<>> THEN 1 ELSE 0)
                 /\ \A i \in 1..Len(matching) :
                        i <= Len(tasks) /\ tasks[i].execution = matching[i].path
                 /\ env.user.compilerPath # <<>> =>
                        tasks[Len(tasks)].execution = userCompilerPath(env)
            ELSE tasks = <<>>


====
